---- MODULE Spec2Model ----
(***************************************************************************)
(* Model of gfx-toybox: the graphics context `State` (new / resize /       *)
(* input / update / render) and the closure that `run` hands to the winit  *)
(* event loop (src/src/lib.rs), print_adapters, and main of the native     *)
(* build (src/src/main.rs).                                                *)
(*                                                                         *)
(* Three specifications share the variables:                               *)
(*   Spec      the event loop of run(), from the state in which            *)
(*             State::new has returned and surface_configured is false;    *)
(*   NewSpec   State::new as a step, from what the window and the driver   *)
(*             answer;                                                     *)
(*   MainSpec  main(): init_logger, print_adapters, the call of run.       *)
(*                                                                         *)
(* wgpu and winit are external.  Their objects are modelled by what the    *)
(* code can observe of them:                                               *)
(*   - the surface is the configuration last applied to it by              *)
(*     Surface::configure (<<>> while it was never configured);            *)
(*   - Surface::get_current_texture answers Ok or one of the four          *)
(*     SurfaceError variants the closure matches on, chosen by the         *)
(*     environment;                                                        *)
(*   - the event loop delivers events one at a time to the closure;        *)
(*     control_flow.exit() only sets a flag that the closure never reads:  *)
(*     the loop finishes its iteration, so further events may still reach  *)
(*     the closure, then it delivers the final LoopExiting event and       *)
(*     returns;                                                            *)
(*   - key events carry no modifiers: the platform reports the held        *)
(*     modifiers with WindowEvent::ModifiersChanged.                       *)
(* `calls` records, in order, the calls the closure made on the window,    *)
(* the surface, the device, the queue and the control flow while handling  *)
(* the last delivered event.                                               *)
(***************************************************************************)
EXTENDS Integers, Sequences, FiniteSets, TLC

VARIABLES
    pc,                 \* position of the program: in event_loop.run "loop", "exiting",
                        \* "exited"; in State::new "new", "panicked"; in main see MainSpec
    state,              \* the State struct: config, size, surface
    surface_configured, \* the local of run()
    exit_requested,     \* control_flow.exit() has been called
    event,              \* the event the closure handled last
    result,             \* what State::render returned while handling it ("None": not called)
    calls,              \* the calls made while handling it
    resized_seen,       \* history: a Resized event was delivered for the window
    oom_seen,           \* history: a render call returned OutOfMemory
    close_seen,         \* history: a CloseRequested event was delivered for the window
    texture_answer,     \* what Surface::get_current_texture answered while handling the
                        \* last event ("None": not called)
    modifiers,          \* the modifiers the platform last reported as held for the window
    new_in,             \* while State::new runs: <<what the window and the driver answer>>
    new_calls,          \* number of times the body of State::new has run
    run_future,         \* the future run() returns: "none", "created", "polled", "dropped"
    adapters,           \* print_adapters: the enumerated adapters still to be logged
    log                 \* the lines print_adapters has logged

vars == <<pc, state, surface_configured, exit_requested, event, result, calls,
          resized_seen, oom_seen, close_seen, texture_answer, modifiers,
          new_in, new_calls, run_future, adapters, log>>

----------------------------------------------------------------------------
(* Bounds and input domains *)

MaxDim == 2
MaxFormats == 2

Dims == 0..MaxDim
PhysicalSize == [width : Dims, height : Dims]

Formats == {"Bgra8Unorm", "Bgra8UnormSrgb", "Rgba8UnormSrgb"}
FormatLists == UNION {[1..n -> Formats] : n \in 1..MaxFormats}
PresentModeLists == {<<"Fifo">>, <<"Mailbox", "Fifo">>}
AlphaModeLists == {<<"Opaque">>, <<"Auto", "Opaque">>}
SurfaceCapabilities ==
    [formats : FormatLists, present_modes : PresentModeLists, alpha_modes : AlphaModeLists]

OwnWindow == "own"
WindowIds == {"own", "other"}
SurfaceErrors == {"Lost", "Outdated", "OutOfMemory", "Timeout"}
Outcomes == {"Ok"} \cup SurfaceErrors

NoSize == [width |-> 0, height |-> 0]

ModifiersStates == {"empty", "SHIFT"}

Ev(kind, wid, sz, key, kst, rep) ==
    [kind |-> kind, window_id |-> wid, size |-> sz,
     physical_key |-> key, key_state |-> kst, repeat |-> rep, modifiers |-> "empty"]

NoEvent == Ev("None", "none", NoSize, "None", "None", FALSE)
LoopExitingEvent == Ev("LoopExiting", "none", NoSize, "None", "None", FALSE)

ResizedEvents == {Ev("Resized", w, sz, "None", "None", FALSE) : w \in WindowIds, sz \in PhysicalSize}
RedrawEvents == {Ev("RedrawRequested", w, NoSize, "None", "None", FALSE) : w \in WindowIds}
CloseEvents == {Ev("CloseRequested", w, NoSize, "None", "None", FALSE) : w \in WindowIds}
KeyboardEvents ==
    {Ev("KeyboardInput", w, NoSize, k, s, r) :
        w \in WindowIds, k \in {"Escape", "KeyA"}, s \in {"Pressed", "Released"}, r \in BOOLEAN}
OtherWindowEvents == {Ev(k, w, NoSize, "None", "None", FALSE) : k \in {"Focused", "Moved"}, w \in WindowIds}
\* WindowEvent::ModifiersChanged(modifiers): the keyboard modifiers now held
ModifiersChangedEvents ==
    {[Ev("ModifiersChanged", w, NoSize, "None", "None", FALSE) EXCEPT !.modifiers = m] :
        w \in WindowIds, m \in ModifiersStates}
DeviceEvents == {Ev(k, "none", NoSize, "None", "None", FALSE) : k \in {"Resumed", "AboutToWait"}}

WindowEventKinds ==
    {"Resized", "RedrawRequested", "CloseRequested", "KeyboardInput", "Focused", "Moved",
     "ModifiersChanged"}

----------------------------------------------------------------------------
(* State::new *)

is_srgb(fmt) == fmt \in {"Bgra8UnormSrgb", "Rgba8UnormSrgb"}

\* the selection that takes the first reported format whatever it is
surface_fmt_first(formats) == formats[1]

\* surface_caps.formats.iter().find(|fmt| fmt.is_srgb()).copied().unwrap_or(formats[0])
surface_fmt(formats) ==
    LET srgb == {i \in 1..Len(formats) : is_srgb(formats[i])}
    IN  IF srgb # {}
        THEN formats[CHOOSE i \in srgb : \A j \in srgb : i <= j]
        ELSE formats[1]

\* State::new that ends with surface.configure(&device, &config)
State_new_configures(inner_size, surface_caps) ==
    LET config == [usage |-> "RENDER_ATTACHMENT",
                   format |-> surface_fmt(surface_caps.formats),
                   width |-> inner_size.width,
                   height |-> inner_size.height,
                   present_mode |-> surface_caps.present_modes[1],
                   desired_maximum_frame_latency |-> 2,
                   alpha_mode |-> surface_caps.alpha_modes[1],
                   view_formats |-> <<>>]
    IN  [config |-> config, size |-> inner_size, surface |-> <<config>>]

State_new(inner_size, surface_caps) ==
    [config |-> [usage |-> "RENDER_ATTACHMENT",
                 format |-> surface_fmt(surface_caps.formats),
                 width |-> inner_size.width,
                 height |-> inner_size.height,
                 present_mode |-> surface_caps.present_modes[1],
                 desired_maximum_frame_latency |-> 2,
                 alpha_mode |-> surface_caps.alpha_modes[1],
                 view_formats |-> <<>>],
     size |-> inner_size,
     surface |-> <<>>]

----------------------------------------------------------------------------
(* The closure's working context: the captured State, the captured         *)
(* surface_configured, the control flow's exit flag, the value of the      *)
(* last render call and the calls made so far.                             *)

Ctx(st, sc, ex) ==
    [state |-> st, surface_configured |-> sc, exit |-> ex, result |-> "None", calls |-> <<>>]

Call(c, name) == [c EXCEPT !.calls = Append(@, name)]

\* resize that leaves config.height as it was
resize_keeps_height(c, new_size) ==
    LET c0 == Call(c, "resize")
    IN  IF new_size.width > 0 /\ new_size.height > 0
        THEN LET config == [c0.state.config EXCEPT !.width = new_size.width]
             IN  Call([c0 EXCEPT !.state.size = new_size,
                                 !.state.config = config,
                                 !.state.surface = <<config>>],
                      "configure")
        ELSE c0

\* resize that leaves self.size as it was
resize_keeps_size(c, new_size) ==
    LET c0 == Call(c, "resize")
    IN  IF new_size.width > 0 /\ new_size.height > 0
        THEN LET config == [c0.state.config EXCEPT !.width = new_size.width,
                                                   !.height = new_size.height]
             IN  Call([c0 EXCEPT !.state.config = config,
                                 !.state.surface = <<config>>],
                      "configure")
        ELSE c0

\* resize guarded by `||` in place of `&&`
resize_or_guard(c, new_size) ==
    LET c0 == Call(c, "resize")
    IN  IF new_size.width > 0 \/ new_size.height > 0
        THEN LET config == [c0.state.config EXCEPT !.width = new_size.width,
                                                   !.height = new_size.height]
             IN  Call([c0 EXCEPT !.state.size = new_size,
                                 !.state.config = config,
                                 !.state.surface = <<config>>],
                      "configure")
        ELSE c0

\* resize that rebuilds the configuration with the default present mode
resize_default_present_mode(c, new_size) ==
    LET c0 == Call(c, "resize")
    IN  IF new_size.width > 0 /\ new_size.height > 0
        THEN LET config == [c0.state.config EXCEPT !.width = new_size.width,
                                                   !.height = new_size.height,
                                                   !.present_mode = "Fifo"]
             IN  Call([c0 EXCEPT !.state.size = new_size,
                                 !.state.config = config,
                                 !.state.surface = <<config>>],
                      "configure")
        ELSE c0

\* State::resize
resize(c, new_size) ==
    LET c0 == Call(c, "resize")
    IN  IF new_size.width > 0 /\ new_size.height > 0
        THEN LET config == [c0.state.config EXCEPT !.width = new_size.width,
                                                   !.height = new_size.height]
             IN  Call([c0 EXCEPT !.state.size = new_size,
                                 !.state.config = config,
                                 !.state.surface = <<config>>],
                      "configure")
        ELSE c0

\* State::input
input(c, ev) == FALSE

\* State::update
update(c) == Call(c, "update")

\* render that asks for the texture a second time when the first request fails
render_retries(c, acquired) ==
    LET c1 == Call(Call(c, "render"), "get_current_texture")
    IN  IF acquired = "Ok"
        THEN [Call(Call(Call(Call(Call(c1, "create_view"),
                                  "create_command_encoder"),
                             "begin_render_pass"),
                        "submit"),
                   "present")
              EXCEPT !.result = "Ok"]
        ELSE [Call(c1, "get_current_texture") EXCEPT !.result = acquired]

\* State::render; acquired is the answer of Surface::get_current_texture
render(c, acquired) ==
    LET c1 == Call(Call(c, "render"), "get_current_texture")
    IN  IF acquired = "Ok"
        THEN [Call(Call(Call(Call(Call(c1, "create_view"),
                                  "create_command_encoder"),
                             "begin_render_pass"),
                        "submit"),
                   "present")
              EXCEPT !.result = "Ok"]
        ELSE [c1 EXCEPT !.result = acquired]

\* control_flow.exit()
exit(c) == Call([c EXCEPT !.exit = TRUE], "exit")

----------------------------------------------------------------------------
(* The closure passed to event_loop.run *)

\* the arm that records the surface as configured only when resize configures it
Resized_arm_positive_only(c, physical_size) ==
    resize([c EXCEPT !.surface_configured =
                         @ \/ (physical_size.width > 0 /\ physical_size.height > 0)],
           physical_size)

\* WindowEvent::Resized(physical_size) => { ... }
Resized_arm(c, physical_size) ==
    resize([c EXCEPT !.surface_configured = TRUE], physical_size)

\* the match with Timeout handled like OutOfMemory
render_match_timeout_exits(c) ==
    CASE c.result = "Ok" -> c
      [] c.result \in {"Lost", "Outdated"} -> resize(c, c.state.size)
      [] c.result \in {"OutOfMemory", "Timeout"} -> exit(c)

\* match state.render() { ... }
render_match(c) ==
    CASE c.result = "Ok" -> c
      [] c.result \in {"Lost", "Outdated"} -> resize(c, c.state.size)
      [] c.result = "OutOfMemory" -> exit(c)
      [] c.result = "Timeout" -> c

\* the arm without the `if !surface_configured { return; }` guard
RedrawRequested_arm_unguarded(c, acquired) ==
    render_match(render(update(Call(c, "request_redraw")), acquired))

\* the arm that requests the next redraw after rendering
RedrawRequested_arm_late_request(c, acquired) ==
    IF ~c.surface_configured
    THEN Call(c, "request_redraw")
    ELSE Call(render_match(render(update(c), acquired)), "request_redraw")

\* WindowEvent::RedrawRequested => { ... }
RedrawRequested_arm(c, acquired) ==
    LET c1 == Call(c, "request_redraw")
    IN  IF ~c1.surface_configured
        THEN c1
        ELSE render_match(render(update(c1), acquired))

\* the pattern matching ElementState::Released in place of Pressed
is_exit_pattern_released(ev) ==
    \/ ev.kind = "CloseRequested"
    \/ /\ ev.kind = "KeyboardInput"
       /\ ev.key_state = "Released"
       /\ ev.physical_key = "Escape"

\* the pattern without the `state: ElementState::Pressed` field
is_exit_pattern_any_state(ev) ==
    \/ ev.kind = "CloseRequested"
    \/ /\ ev.kind = "KeyboardInput"
       /\ ev.physical_key = "Escape"

\* WindowEvent::CloseRequested | WindowEvent::KeyboardInput { event: KeyEvent {
\*     state: ElementState::Pressed, physical_key: PhysicalKey::Code(KeyCode::Escape), .. }, .. }
is_exit_pattern(ev) ==
    \/ ev.kind = "CloseRequested"
    \/ /\ ev.kind = "KeyboardInput"
       /\ ev.key_state = "Pressed"
       /\ ev.physical_key = "Escape"

\* the arm without the `if window_id == state.window().id()` guard
is_own_window_event_any_window(ev) ==
    ev.kind \in WindowEventKinds

\* Event::WindowEvent { ref event, window_id } if window_id == state.window().id()
is_own_window_event(ev) ==
    ev.kind \in WindowEventKinds /\ ev.window_id = OwnWindow

run_closure(c, ev, acquired) ==
    IF ev.kind = "Resumed"
    THEN c
    ELSE IF is_own_window_event(ev)
    THEN IF ~input(c, ev)
         THEN CASE ev.kind = "Resized" -> Resized_arm(c, ev.size)
                [] ev.kind = "RedrawRequested" -> RedrawRequested_arm(c, acquired)
                [] ev.kind \notin {"Resized", "RedrawRequested"} /\ is_exit_pattern(ev) -> exit(c)
                [] OTHER -> c
         ELSE c
    ELSE c

----------------------------------------------------------------------------
(* run(): the state after State::new(&window).await and                    *)
(* `let mut surface_configured = false`, then the event loop.              *)

Init ==
    /\ pc = "loop"
    /\ \E inner_size \in PhysicalSize, surface_caps \in SurfaceCapabilities :
           state = State_new(inner_size, surface_caps)
    /\ surface_configured = FALSE
    /\ exit_requested = FALSE
    /\ event = NoEvent
    /\ result = "None"
    /\ calls = <<>>
    /\ resized_seen = FALSE
    /\ oom_seen = FALSE
    /\ close_seen = FALSE
    /\ texture_answer = "None"
    /\ modifiers = "empty"
    /\ new_in = <<>>
    /\ new_calls = 1
    /\ run_future = "polled"
    /\ adapters = <<>>
    /\ log = <<>>

\* ev is delivered to the closure.  The closure has no guard on the exit flag:
\* events the loop still delivers after control_flow.exit() are handled alike.
Deliver(ev, answer) ==
    /\ pc \in {"loop", "exiting"}
    /\ LET c == run_closure(Ctx(state, surface_configured, exit_requested), ev, answer)
       IN  /\ state' = c.state
           /\ surface_configured' = c.surface_configured
           /\ exit_requested' = c.exit
           /\ result' = c.result
           /\ calls' = c.calls
           /\ oom_seen' = (oom_seen \/ c.result = "OutOfMemory")
           /\ pc' = IF c.exit THEN "exiting" ELSE "loop"
           /\ texture_answer' = IF \E i \in 1..Len(c.calls) : c.calls[i] = "get_current_texture"
                                 THEN answer ELSE "None"
    /\ event' = ev
    /\ modifiers' = IF ev.kind = "ModifiersChanged" /\ ev.window_id = OwnWindow
                    THEN ev.modifiers ELSE modifiers
    /\ UNCHANGED <<new_in, new_calls, run_future, adapters, log>>
    /\ resized_seen' = (resized_seen \/ (ev.kind = "Resized" /\ ev.window_id = OwnWindow))
    /\ close_seen' = (close_seen \/ (ev.kind = "CloseRequested" /\ ev.window_id = OwnWindow))

DeliverResized == \E ev \in ResizedEvents : Deliver(ev, "Ok")

DeliverRedrawRequested == \E ev \in RedrawEvents, answer \in Outcomes : Deliver(ev, answer)

DeliverCloseRequested == \E ev \in CloseEvents : Deliver(ev, "Ok")

DeliverKeyboardInput == \E ev \in KeyboardEvents : Deliver(ev, "Ok")

DeliverOtherWindowEvent == \E ev \in OtherWindowEvents : Deliver(ev, "Ok")

DeliverModifiersChanged == \E ev \in ModifiersChangedEvents : Deliver(ev, "Ok")

DeliverDeviceEvent == \E ev \in DeviceEvents : Deliver(ev, "Ok")

\* After control_flow.exit(), once its iteration is finished, the loop delivers
\* LoopExiting and run returns.
DeliverLoopExiting ==
    /\ pc = "exiting"
    /\ LET c == run_closure(Ctx(state, surface_configured, exit_requested), LoopExitingEvent, "Ok")
       IN  /\ state' = c.state
           /\ surface_configured' = c.surface_configured
           /\ exit_requested' = c.exit
           /\ result' = c.result
           /\ calls' = c.calls
    /\ event' = LoopExitingEvent
    /\ pc' = "exited"
    /\ texture_answer' = "None"
    /\ UNCHANGED <<resized_seen, oom_seen, close_seen, modifiers,
                   new_in, new_calls, run_future, adapters, log>>

Next ==
    \/ DeliverResized
    \/ DeliverRedrawRequested
    \/ DeliverCloseRequested
    \/ DeliverKeyboardInput
    \/ DeliverOtherWindowEvent
    \/ DeliverModifiersChanged
    \/ DeliverDeviceEvent
    \/ DeliverLoopExiting

Spec == Init /\ [][Next]_vars

----------------------------------------------------------------------------
(* State::new as a step of run(): what the window and the driver answer    *)
(* is drawn in the initial state, the step builds the context.             *)

\* The State of run() before `State::new(&window).await` has returned
UninitState ==
    [config |-> [usage |-> "None", format |-> "None", width |-> 0, height |-> 0,
                 present_mode |-> "None", desired_maximum_frame_latency |-> 0,
                 alpha_mode |-> "None", view_formats |-> <<>>],
     size |-> NoSize,
     surface |-> <<>>]

\* the fallible calls of State::new, each unwrapped with expect
NewFailures == {"none", "create_surface", "request_adapter", "request_device"}

\* capability lists as the driver may report them, the empty format list included
ReportedCapabilities ==
    [formats : FormatLists \cup {<<>>},
     present_modes : PresentModeLists, alpha_modes : AlphaModeLists]

NewInputs == [inner_size : PhysicalSize, surface_caps : ReportedCapabilities, failure : NewFailures]

\* State::new panics: an expect fails, or surface_caps.formats[0] is out of bounds
new_panics(in) == in.failure # "none" \/ Len(in.surface_caps.formats) = 0

NewInit ==
    /\ pc = "new"
    /\ new_in \in {<<in>> : in \in NewInputs}
    /\ state = UninitState
    /\ surface_configured = FALSE
    /\ exit_requested = FALSE
    /\ event = NoEvent
    /\ result = "None"
    /\ calls = <<>>
    /\ resized_seen = FALSE
    /\ oom_seen = FALSE
    /\ close_seen = FALSE
    /\ texture_answer = "None"
    /\ modifiers = "empty"
    /\ new_calls = 0
    /\ run_future = "polled"
    /\ adapters = <<>>
    /\ log = <<>>

\* let mut state = State::new(&window).await; let mut surface_configured = false;
StateNew ==
    /\ pc = "new"
    /\ ~new_panics(new_in[1])
    /\ state' = State_new(new_in[1].inner_size, new_in[1].surface_caps)
    /\ surface_configured' = FALSE
    /\ new_calls' = new_calls + 1
    /\ pc' = "loop"
    /\ UNCHANGED <<exit_requested, event, result, calls, resized_seen, oom_seen, close_seen,
                   texture_answer, modifiers, new_in, run_future, adapters, log>>

StateNewPanics ==
    /\ pc = "new"
    /\ new_panics(new_in[1])
    /\ new_calls' = new_calls + 1
    /\ pc' = "panicked"
    /\ UNCHANGED <<state, surface_configured, exit_requested, event, result, calls,
                   resized_seen, oom_seen, close_seen, texture_answer, modifiers,
                   new_in, run_future, adapters, log>>

NewNext == StateNew \/ StateNewPanics

NewSpec == NewInit /\ [][NewNext]_vars

----------------------------------------------------------------------------
(* main() of the native build (src/src/main.rs) and print_adapters.        *)
(* pc: "main", "logger_ready", "enumerating", "reported", "run_called",    *)
(* "main_returned", "panicked".                                            *)

MaxAdapters == 3

AdapterInfos == {"discrete", "integrated", "cpu"}
AdapterLists == UNION {[1..n -> AdapterInfos] : n \in 0..MaxAdapters}

LogLine(text, info) == <<text, info>>

MainInit ==
    /\ pc = "main"
    /\ state = UninitState
    /\ surface_configured = FALSE
    /\ exit_requested = FALSE
    /\ event = NoEvent
    /\ result = "None"
    /\ calls = <<>>
    /\ resized_seen = FALSE
    /\ oom_seen = FALSE
    /\ close_seen = FALSE
    /\ texture_answer = "None"
    /\ modifiers = "empty"
    /\ new_in = <<>>
    /\ new_calls = 0
    /\ run_future = "none"
    /\ adapters = <<>>
    /\ log = <<>>

MainUnchanged ==
    UNCHANGED <<state, surface_configured, exit_requested, event, result, calls,
                resized_seen, oom_seen, close_seen, texture_answer, modifiers,
                new_in, new_calls>>

\* init_logger();
init_logger ==
    /\ pc = "main"
    /\ pc' = "logger_ready"
    /\ UNCHANGED <<run_future, adapters, log>>
    /\ MainUnchanged

\* pollster::block_on(print_adapters()): log the heading, enumerate the adapters
print_adapters_enumerate ==
    /\ pc = "logger_ready"
    /\ \E found \in AdapterLists : adapters' = found
    /\ log' = Append(log, LogLine("Available adapters:", ""))
    /\ pc' = "enumerating"
    /\ UNCHANGED run_future
    /\ MainUnchanged

\* one iteration of `for adapter in instance.enumerate_adapters(..)`
print_adapters_log ==
    /\ pc = "enumerating"
    /\ adapters # <<>>
    /\ log' = Append(log, LogLine("    ", Head(adapters)))
    /\ adapters' = Tail(adapters)
    /\ UNCHANGED <<pc, run_future>>
    /\ MainUnchanged

\* instance.request_adapter(..).await answers Some(adapter); it is logged
print_adapters_default ==
    /\ pc = "enumerating"
    /\ adapters = <<>>
    /\ \E adapter \in AdapterInfos : log' = Append(log, LogLine("Default adapter:", adapter))
    /\ pc' = "reported"
    /\ UNCHANGED <<run_future, adapters>>
    /\ MainUnchanged

\* instance.request_adapter(..).await answers None: expect panics
print_adapters_panics ==
    /\ pc = "enumerating"
    /\ adapters = <<>>
    /\ pc' = "panicked"
    /\ UNCHANGED <<run_future, adapters, log>>
    /\ MainUnchanged

\* `run();`: the call of the async fn builds its future and runs none of its body
main_calls_run ==
    /\ pc = "reported"
    /\ run_future' = "created"
    /\ pc' = "run_called"
    /\ UNCHANGED <<adapters, log>>
    /\ MainUnchanged

\* the statement ends: the future, never awaited nor handed to an executor,
\* is dropped, and main returns
main_returns ==
    /\ pc = "run_called"
    /\ run_future' = "dropped"
    /\ pc' = "main_returned"
    /\ UNCHANGED <<adapters, log>>
    /\ MainUnchanged

MainNext ==
    \/ init_logger
    \/ print_adapters_enumerate
    \/ print_adapters_log
    \/ print_adapters_default
    \/ print_adapters_panics
    \/ main_calls_run
    \/ main_returns

MainSpec == MainInit /\ [][MainNext]_vars

----------------------------------------------------------------------------
(* Shape of the state *)

Count(seq, name) == Cardinality({i \in 1..Len(seq) : seq[i] = name})

TypeOK ==
    /\ pc \in {"loop", "exiting", "exited"}
    /\ new_calls = 1 /\ run_future = "polled"
    /\ state.size \in PhysicalSize
    /\ state.config.width \in Dims /\ state.config.height \in Dims
    /\ Len(state.surface) <= 1
    /\ surface_configured \in BOOLEAN
    /\ exit_requested \in BOOLEAN
    /\ result \in {"None"} \cup Outcomes

----------------------------------------------------------------------------
(* Vocabulary of the properties *)

Positive(sz) == sz.width > 0 /\ sz.height > 0

Own(kind) == event.kind = kind /\ event.window_id = OwnWindow

EscapePressed(ev) ==
    /\ ev.kind = "KeyboardInput" /\ ev.window_id = OwnWindow
    /\ ev.physical_key = "Escape" /\ ev.key_state = "Pressed"

OwnCloseRequested == Ev("CloseRequested", OwnWindow, NoSize, "None", "None", FALSE)

\* the surface is configured with cfg
Applied(cfg) == state.surface = <<cfg>>

----------------------------------------------------------------------------
(* C1: a call resize(w, h) with w > 0 and h > 0 -- from a Resized event,   *)
(* or from the Lost/Outdated arm when the stored size is positive --       *)
(* leaves config.width = w, config.height = h and size = (w, h), and       *)
(* configures the surface exactly once, with that configuration.           *)
C1_ResizePositive ==
    /\ (Own("Resized") /\ Positive(event.size)) =>
           /\ state.config.width = event.size.width
           /\ state.config.height = event.size.height
           /\ state.size = event.size
           /\ Count(calls, "configure") = 1
           /\ Applied(state.config)
    /\ (result \in {"Lost", "Outdated"} /\ Positive(state.size)) =>
           /\ state.config.width = state.size.width
           /\ state.config.height = state.size.height
           /\ Count(calls, "configure") = 1
           /\ Applied(state.config)

C1_Witness ==
    /\ Own("Resized")
    /\ event.size = [width |-> 2, height |-> 1]
    /\ state.size = event.size
    /\ calls = <<"resize", "configure">>
    /\ Applied(state.config)

(* C2: a call resize(w, h) with w = 0 or h = 0 changes nothing: config,    *)
(* size and the configuration applied to the surface stay as they were     *)
(* and no Surface::configure call is issued.                               *)
C2_ResizeZeroNoOp ==
    [][(event'.kind = "Resized" /\ event'.window_id = OwnWindow /\ ~Positive(event'.size)) =>
           /\ state' = state
           /\ calls' = <<"resize">>]_vars

C2_Witness ==
    /\ Own("Resized")
    /\ event.size = [width |-> 2, height |-> 0]
    /\ calls = <<"resize">>
    /\ Len(state.surface) = 1
    /\ Positive(state.size)

(* C3: while no Resized event has been delivered for the window, a         *)
(* RedrawRequested event requests the next redraw and calls neither        *)
(* update nor render.                                                      *)
C3_RedrawBeforeResize ==
    (~resized_seen /\ Own("RedrawRequested")) =>
        /\ calls = <<"request_redraw">>
        /\ result = "None"

C3_Witness ==
    /\ ~resized_seen
    /\ Own("RedrawRequested")
    /\ calls = <<"request_redraw">>

(* C4: whenever render returns Lost or Outdated, the same handling step    *)
(* configures the surface with the stored size, whose two dimensions are   *)
(* positive, requests no exit and presents no frame.                       *)
C4_LostReconfigures ==
    (result \in {"Lost", "Outdated"}) =>
        /\ Positive(state.size)
        /\ Count(calls, "configure") = 1
        /\ Applied(state.config)
        /\ state.config.width = state.size.width
        /\ state.config.height = state.size.height
        /\ Count(calls, "exit") = 0
        /\ Count(calls, "present") = 0

(* C5: when render returns OutOfMemory the closure calls                   *)
(* control_flow.exit() exactly once, and no event delivered afterwards     *)
(* leads to a render call or to another exit request.                      *)
C5_OutOfMemoryExits ==
    /\ [](result = "OutOfMemory" => (Count(calls, "exit") = 1 /\ exit_requested))
    /\ [][oom_seen => (Count(calls', "render") = 0 /\ Count(calls', "exit") = 0)]_vars

(* C6: when render returns Timeout the closure requests no exit, does not  *)
(* configure the surface and changes neither the context nor the           *)
(* configured flag; nothing is presented, the loop is left as it was, and   *)
(* the next RedrawRequested event for the window calls render again.       *)
C6_TimeoutSkips ==
    /\ [][result' = "Timeout" =>
              /\ exit_requested' = exit_requested
              /\ Count(calls', "exit") = 0
              /\ Count(calls', "configure") = 0
              /\ Count(calls', "resize") = 0
              /\ Count(calls', "present") = 0
              /\ state' = state
              /\ surface_configured' = surface_configured
              /\ pc' = pc]_vars
    /\ [][(result = "Timeout" /\ event'.kind = "RedrawRequested" /\ event'.window_id = OwnWindow) =>
              Count(calls', "render") = 1]_vars

C6_Witness ==
    /\ result = "Timeout"
    /\ Own("RedrawRequested")
    /\ Len(state.surface) = 1
    /\ pc = "loop"

(* C7: after a CloseRequested event for the window the loop terminates:    *)
(* exit is requested, and no event delivered afterwards leads to a         *)
(* resize, update or render call or to a request for the next redraw.      *)
C7_CloseTerminates ==
    /\ [](close_seen => (exit_requested /\ pc \in {"exiting", "exited"}))
    /\ [][close_seen =>
              /\ Count(calls', "resize") = 0
              /\ Count(calls', "update") = 0
              /\ Count(calls', "render") = 0
              /\ Count(calls', "request_redraw") = 0]_vars

(* C8: a pressed-Escape key event for the window, repeated or not, before  *)
(* or after the first resize, does exactly what a CloseRequested event     *)
(* does from the same state: exit is requested, nothing else is called     *)
(* and the context is unchanged.                                           *)
C8_EscapeLikeClose ==
    [][EscapePressed(event') =>
           LET c == run_closure(Ctx(state, surface_configured, exit_requested),
                                OwnCloseRequested, "Ok")
           IN  /\ calls' = <<"exit">>
               /\ exit_requested'
               /\ pc' = "exiting"
               /\ state' = state
               /\ surface_configured' = surface_configured
               /\ calls' = c.calls
               /\ exit_requested' = c.exit
               /\ state' = c.state
               /\ surface_configured' = c.surface_configured]_vars

C8_Witness ==
    /\ EscapePressed(event)
    /\ event.repeat
    /\ surface_configured
    /\ exit_requested
    /\ pc = "exiting"

(* C9: in every reachable state config.width = size.width and              *)
(* config.height = size.height.                                            *)
C9_ConfigMatchesSize ==
    /\ state.config.width = state.size.width
    /\ state.config.height = state.size.height

C9_Witness ==
    /\ Own("Resized")
    /\ Positive(event.size)
    /\ state.size = event.size
    /\ state.config.width = event.size.width
    /\ state.config.height = event.size.height

(* C10: in every reachable state, the one State::new returns included,     *)
(* config.width > 0 and config.height > 0.                                 *)
C10_ConfigPositive ==
    /\ state.config.width > 0
    /\ state.config.height > 0

(* C11: when main is through -- logging set up, adapters reported, run     *)
(* called -- the graphics context has been initialised exactly once and    *)
(* the future of run has been driven, so that the frame loop began.        *)
C11_MainRunsInit ==
    (pc = "main_returned") => (new_calls = 1 /\ run_future = "polled")

(* C12, as claimed: when State::new returns, the configuration it built    *)
(* is applied to the surface.                                              *)
C12_NewAppliesConfig ==
    (pc = "loop" /\ new_calls = 1) => Applied(state.config)

(* C12, amended: when State::new returns, the configuration it built from  *)
(* the window's current physical size is held in config and size, and the  *)
(* surface has not been configured.                                        *)
C12_NewHoldsConfig ==
    (pc = "loop" /\ new_calls = 1) =>
        /\ state.config.width = new_in[1].inner_size.width
        /\ state.config.height = new_in[1].inner_size.height
        /\ state.size = new_in[1].inner_size
        /\ state.surface = <<>>
        /\ ~surface_configured

C12_Witness ==
    /\ pc = "loop"
    /\ new_calls = 1
    /\ new_in[1].inner_size = [width |-> 2, height |-> 1]
    /\ state.config.width = 2
    /\ state.config.height = 1
    /\ state.surface = <<>>

(* C13: for a non-empty reported format list, State::new chooses the       *)
(* first sRGB format in list order if the list has one, and the first      *)
(* list entry otherwise.                                                   *)
C13_FormatSelection ==
    (pc = "loop" /\ new_calls = 1) =>
        LET formats == new_in[1].surface_caps.formats
            chosen == state.config.format
        IN  /\ Len(formats) > 0
            /\ (\E i \in 1..Len(formats) : is_srgb(formats[i])) =>
                   \E i \in 1..Len(formats) :
                       /\ is_srgb(formats[i])
                       /\ chosen = formats[i]
                       /\ \A j \in 1..(i - 1) : ~is_srgb(formats[j])
            /\ (\A i \in 1..Len(formats) : ~is_srgb(formats[i])) => chosen = formats[1]

C13_Witness ==
    /\ pc = "loop"
    /\ new_calls = 1
    /\ new_in[1].surface_caps.formats = <<"Bgra8Unorm", "Rgba8UnormSrgb">>
    /\ state.config.format = "Rgba8UnormSrgb"

(* C14: surface_configured is false until the first Resized event for the  *)
(* window is delivered, true from that event on whatever size it carries,  *)
(* and never goes back to false.                                           *)
C14_ConfiguredOneWay ==
    /\ [](surface_configured = resized_seen)
    /\ [][surface_configured => surface_configured']_vars

C14_Witness ==
    /\ surface_configured
    /\ result = "Lost"
    /\ state.surface = <<>>
    /\ pc = "loop"

(* C15: whenever render is called, a configuration with width > 0 and      *)
(* height > 0 has been applied to the surface beforehand.                  *)
C15_RenderOnConfiguredSurface ==
    [][Count(calls', "render") > 0 =>
           (Len(state.surface) = 1 /\ Positive(state.surface[1]))]_vars

(* C16: once surface_configured is true, a RedrawRequested event for the   *)
(* window makes exactly one request_redraw call, then exactly one update   *)
(* call, then exactly one render call; the request is made whatever        *)
(* render returns, and after Ok, Lost, Outdated and Timeout no exit is     *)
(* requested, so the redraw chain continues.                               *)
C16_ReadyRedraw ==
    (surface_configured /\ Own("RedrawRequested")) =>
        /\ Len(calls) >= 3
        /\ SubSeq(calls, 1, 3) = <<"request_redraw", "update", "render">>
        /\ Count(calls, "request_redraw") = 1
        /\ Count(calls, "update") = 1
        /\ Count(calls, "render") = 1
        /\ result \in Outcomes
        /\ (result \in {"Ok", "Lost", "Outdated", "Timeout"}) => Count(calls, "exit") = 0

C16_Witness ==
    /\ surface_configured
    /\ Own("RedrawRequested")
    /\ result = "Outdated"
    /\ Count(calls, "request_redraw") = 1
    /\ Count(calls, "render") = 1
    /\ pc = "loop"

(* C17: a render call asks the surface for a texture once.  If the         *)
(* surface answers Ok, render records the clear pass, submits once, then   *)
(* presents, in that order, and returns Ok; if it answers an error,        *)
(* render returns that error and nothing is submitted or presented.        *)
C17_RenderOneFrame ==
    /\ Count(calls, "render") <= 1
    /\ Count(calls, "render") = 1 =>
           LET at == CHOOSE i \in 1..Len(calls) : calls[i] = "render"
           IN  /\ Count(calls, "get_current_texture") = 1
               /\ texture_answer \in Outcomes
               /\ result = texture_answer
               /\ texture_answer = "Ok" =>
                      /\ Len(calls) = at + 6
                      /\ SubSeq(calls, at + 1, at + 6) =
                             <<"get_current_texture", "create_view", "create_command_encoder",
                               "begin_render_pass", "submit", "present">>
               /\ texture_answer # "Ok" =>
                      /\ calls[at + 1] = "get_current_texture"
                      /\ Count(calls, "begin_render_pass") = 0
                      /\ Count(calls, "submit") = 0
                      /\ Count(calls, "present") = 0

C17_Witness ==
    /\ Count(calls, "render") = 1
    /\ texture_answer = "Ok"
    /\ result = "Ok"
    /\ Count(calls, "submit") = 1
    /\ Count(calls, "present") = 1

(* C18, as claimed: a KeyboardInput event requests exit only if it is      *)
(* Escape, pressed, with no modifier held; any other keyboard event        *)
(* requests no exit and leaves the loop and the context unchanged.         *)
C18_ExitOnlyPlainEscape ==
    [][(event'.kind = "KeyboardInput"
        /\ ~(EscapePressed(event') /\ modifiers = "empty")) =>
           /\ exit_requested' = exit_requested
           /\ calls' = <<>>
           /\ state' = state
           /\ surface_configured' = surface_configured
           /\ pc' = pc]_vars

(* C18, amended: a KeyboardInput event requests exit if and only if it is  *)
(* for the window and is Escape in the pressed state, whatever modifiers   *)
(* are held; any other keyboard event requests no exit and leaves the      *)
(* loop and the context unchanged.                                         *)
C18_ExitOnlyPressedEscape ==
    [][event'.kind = "KeyboardInput" =>
           IF EscapePressed(event')
           THEN exit_requested' /\ calls' = <<"exit">> /\ pc' = "exiting"
           ELSE /\ exit_requested' = exit_requested
                /\ calls' = <<>>
                /\ state' = state
                /\ surface_configured' = surface_configured
                /\ pc' = pc]_vars

C18_Witness ==
    /\ EscapePressed(event)
    /\ modifiers = "SHIFT"
    /\ exit_requested
    /\ calls = <<"exit">>

(* C19: an event that is not a Resized, RedrawRequested, CloseRequested    *)
(* or pressed-Escape event for the window -- a window event for another    *)
(* window id and a non-window event included -- changes neither the        *)
(* context nor surface_configured nor the exit request, and causes no      *)
(* call at all.                                                            *)
C19_OtherEventsIgnored ==
    [][~(\/ EscapePressed(event')
         \/ /\ event'.window_id = OwnWindow
            /\ event'.kind \in {"Resized", "RedrawRequested", "CloseRequested"}) =>
           /\ state' = state
           /\ surface_configured' = surface_configured
           /\ exit_requested' = exit_requested
           /\ calls' = <<>>
           /\ result' = "None"]_vars

C19_Witness ==
    /\ event.kind = "Resized"
    /\ event.window_id = "other"
    /\ Positive(event.size)
    /\ calls = <<>>
    /\ ~surface_configured
    /\ state.size # event.size

(* C20: no step changes the format, present mode, alpha mode, usage,       *)
(* view formats or maximum frame latency (2) of config; and a step in      *)
(* which render is called changes neither config nor size.                 *)
C20_ConfigFieldsFixed ==
    /\ [](state.config.desired_maximum_frame_latency = 2)
    /\ [][/\ state'.config.format = state.config.format
          /\ state'.config.present_mode = state.config.present_mode
          /\ state'.config.alpha_mode = state.config.alpha_mode
          /\ state'.config.usage = state.config.usage
          /\ state'.config.view_formats = state.config.view_formats
          /\ state'.config.desired_maximum_frame_latency =
                 state.config.desired_maximum_frame_latency]_vars
    /\ [][Count(calls', "render") > 0 =>
              (state'.config = state.config /\ state'.size = state.size)]_vars

C20_Witness ==
    /\ result = "Lost"
    /\ Count(calls, "configure") = 1
    /\ state.config.present_mode = "Mailbox"
    /\ state.config.format = "Rgba8UnormSrgb"
    /\ Applied(state.config)

====
